---- MODULE Spec2Model ----
(***************************************************************************)
(* A model of the request dispatcher (PredictionServiceImpl), the REST     *)
(* helper FillModelSpecWithNameVersionAndLabel and the model bundle        *)
(* factory (SavedModelBundleFactory) of tensorflow-serving-tfdf.           *)
(***************************************************************************)
EXTENDS Integers, Sequences, FiniteSets, Bags, TLC

VARIABLES
    enforce_session_run_timeout_, \* PredictionServiceImpl option
    rpc,                \* the dispatcher call that returned last
    serviceCalls,       \* invocations of the delegated service operations
    requestCount,       \* metrics sink: request-count cells
    requestLatency,     \* metrics sink: latency samples per cell
    fill,               \* the FillModelSpecWithNameVersionAndLabel call that returned last
    fillCalls,          \* number of FillModelSpecWithNameVersionAndLabel calls
    factory,            \* SavedModelBundleFactory: config_ and batch_scheduler_
    schedulers,         \* number of batch schedulers constructed so far
    load,               \* the InternalCreateSavedModelBundle call that returned last
    loads,              \* number of Load calls so far
    tflite,             \* the TfLiteSession::Create call that returned last
    tfliteCalls,        \* number of direct TfLiteSession::Create calls so far
    tasks,              \* batching scheduler: the tasks enqueued, in arrival order
    open,               \* batching scheduler: the open group of each signature
    batches,            \* batching scheduler: the closed batches, in closing order
    shutdown,           \* batching scheduler: whether it was shut down
    parse,              \* the ParseModelInfo call that returned last
    parses              \* number of ParseModelInfo calls so far

dispatcherVars == <<enforce_session_run_timeout_, rpc, serviceCalls,
                    requestCount, requestLatency>>
fillVars == <<fill, fillCalls>>
factoryVars == <<factory, schedulers, load, loads>>
tfliteVars == <<tflite, tfliteCalls>>
batchVars == <<tasks, open, batches, shutdown>>
parseVars == <<parse, parses>>
vars == <<enforce_session_run_timeout_, rpc, serviceCalls, requestCount,
          requestLatency, fill, fillCalls, factory, schedulers, load, loads,
          tflite, tfliteCalls, tasks, open, batches, shutdown, parse, parses>>

----------------------------------------------------------------------------
(* Bounds *)

MaxCalls == 2

----------------------------------------------------------------------------
(* Status *)

StatusCodes == {"OK", "NOT_FOUND", "DEADLINE_EXCEEDED"}

Messages == [c \in StatusCodes |->
               IF c = "OK" THEN "" ELSE
               IF c = "NOT_FOUND" THEN "servable not found" ELSE
               "deadline exceeded"]

\* ::tensorflow::Status values the delegated service operations return
ServiceStatuses == {[code |-> c, error_message |-> Messages[c]] : c \in StatusCodes}

StatusOK == [code |-> "OK", error_message |-> ""]

ok(status) == status.code = "OK"

\* grpc_status_util: the wire status carries the same code and message
ToGRPCStatus(tf_status) ==
    [code |-> tf_status.code, error_message |-> tf_status.error_message]

----------------------------------------------------------------------------
(* gpr time, as used by DeadlineToTimeoutMillis *)

GPR_NS_PER_SEC == 1000000000
GPR_NS_PER_MS == 1000000
GPR_MS_PER_SEC == 1000

\* seconds by which the realtime clock is ahead of the monotonic clock
RealtimeOffsetSec == 100

gpr_timespec(sec, nsec, clock) ==
    [tv_sec |-> sec, tv_nsec |-> nsec, clock_type |-> clock]

\* gpr_now(clock): mono is the reading of the monotonic clock
gpr_now(clock, mono) ==
    IF clock = "MONOTONIC" THEN mono
    ELSE gpr_timespec(mono.tv_sec + RealtimeOffsetSec, mono.tv_nsec, "REALTIME")

gpr_time_sub(a, b) ==
    LET nsec == a.tv_nsec - b.tv_nsec
        dec == IF nsec < 0 THEN 1 ELSE 0
    IN  gpr_timespec(a.tv_sec - b.tv_sec - dec,
                     IF nsec < 0 THEN nsec + GPR_NS_PER_SEC ELSE nsec,
                     "TIMESPAN")

gpr_time_add(a, b) ==
    LET nsec == a.tv_nsec + b.tv_nsec
        inc == IF nsec >= GPR_NS_PER_SEC THEN 1 ELSE 0
    IN  gpr_timespec(a.tv_sec + b.tv_sec + inc,
                     IF nsec >= GPR_NS_PER_SEC THEN nsec - GPR_NS_PER_SEC ELSE nsec,
                     a.clock_type)

gpr_convert_clock_type(t, target, mono) ==
    IF t.clock_type = target THEN t
    ELSE gpr_time_add(gpr_now(target, mono),
                      gpr_time_sub(t, gpr_now(t.clock_type, mono)))

\* int32 milliseconds of a time span, saturating at both ends
gpr_time_to_millis(t) ==
    IF t.tv_sec >= 2147483
    THEN IF t.tv_sec = 2147483 /\ t.tv_nsec < 648 * GPR_NS_PER_MS
         THEN 2147483 * GPR_MS_PER_SEC + t.tv_nsec \div GPR_NS_PER_MS
         ELSE 2147483647
    ELSE IF t.tv_sec <= -2147483
         THEN -2147483647
         ELSE t.tv_sec * GPR_MS_PER_SEC + t.tv_nsec \div GPR_NS_PER_MS

DeadlineToTimeoutMillis(deadline, mono) ==
    gpr_time_to_millis(
        gpr_time_sub(gpr_convert_clock_type(deadline, "MONOTONIC", mono),
                     gpr_now("MONOTONIC", mono)))

----------------------------------------------------------------------------
(* Inputs of the dispatcher *)

ModelNames == {"half_plus_two", "mobilenet"}

\* (ServerContext::raw_deadline(), reading of the monotonic clock at the call):
\* a deadline that passed, one that is now, ones ahead on either clock, and
\* ones so far ahead that the int32 millisecond count saturates
TimeCases ==
    {<<gpr_timespec(49, 998500000, "MONOTONIC"), gpr_timespec(50, 0, "MONOTONIC")>>,
     <<gpr_timespec(50, 0, "MONOTONIC"), gpr_timespec(50, 0, "MONOTONIC")>>,
     <<gpr_timespec(50, 2500000, "MONOTONIC"), gpr_timespec(50, 0, "MONOTONIC")>>,
     <<gpr_timespec(50 + RealtimeOffsetSec, 999000000, "REALTIME"),
       gpr_timespec(50, 999600000, "MONOTONIC")>>,
     <<gpr_timespec(53 + RealtimeOffsetSec, 0, "REALTIME"),
       gpr_timespec(50, 999600000, "MONOTONIC")>>,
     <<gpr_timespec(2147483 + 50, 100000000, "MONOTONIC"),
       gpr_timespec(50, 0, "MONOTONIC")>>,
     <<gpr_timespec(2147483 + 50, 700000000, "MONOTONIC"),
       gpr_timespec(50, 0, "MONOTONIC")>>}

Ops == {"Predict", "Classify", "Regress", "MultiInference", "GetModelMetadata"}
Entrypoints == {"GRPC", "REST"}

\* tensorflow::RunOptions(): timeout_in_ms defaults to 0, which means no timeout
DefaultRunOptions == [timeout_in_ms |-> 0]

\* variant: the timeout is derived from the deadline without looking at the option
MakeRunOptions_AlwaysSet(enforce, deadline, mono) ==
    [DefaultRunOptions EXCEPT
       !.timeout_in_ms = DeadlineToTimeoutMillis(deadline, mono)]

\* the RunOptions the handlers build before delegating
MakeRunOptions(enforce, deadline, mono) ==
    IF enforce
    THEN [DefaultRunOptions EXCEPT
            !.timeout_in_ms = DeadlineToTimeoutMillis(deadline, mono)]
    ELSE DefaultRunOptions

\* metrics sink
RecordRequestLatency(sink, model_name, api, entrypoint) ==
    [sink EXCEPT ![<<model_name, api, entrypoint>>] = @ + 1]

RecordModelRequestCount(sink, model_name, status) ==
    [sink EXCEPT ![<<model_name, status.code>>] = @ + 1]

RECURSIVE SumOver(_, _)
SumOver(f, S) ==
    IF S = {} THEN 0
    ELSE LET x == CHOOSE y \in S : TRUE IN f[x] + SumOver(f, S \ {x})

Total(f) == SumOver(f, DOMAIN f)

\* dispatcher calls made so far
Calls ==
    serviceCalls["Predict"] + serviceCalls["Classify"] + serviceCalls["Regress"]
      + serviceCalls["MultiInference"] + serviceCalls["GetModelMetadata"]

NoRpc == [op |-> "none", model_name |-> "", deadline |-> gpr_timespec(0, 0, "MONOTONIC"),
          now |-> gpr_timespec(0, 0, "MONOTONIC"), run_options |-> DefaultRunOptions,
          has_run_options |-> FALSE, tf_status |-> StatusOK, status |-> StatusOK]

\* what a finished call leaves behind for the caller and the backend to see
Rpc(op, model_name, deadline, mono, run_options, has_run_options, tf_status, status) ==
    [op |-> op, model_name |-> model_name, deadline |-> deadline, now |-> mono,
     run_options |-> run_options, has_run_options |-> has_run_options,
     tf_status |-> tf_status, status |-> status]

----------------------------------------------------------------------------
(* PredictionServiceImpl *)

Predict(model_name, deadline, mono, tf_status) ==
    LET run_options == MakeRunOptions(enforce_session_run_timeout_, deadline, mono)
        status == ToGRPCStatus(tf_status)
    IN  /\ Calls < MaxCalls
        /\ serviceCalls' = [serviceCalls EXCEPT !["Predict"] = @ + 1]
        /\ requestLatency' =
              IF ok(status)
              THEN RecordRequestLatency(requestLatency, model_name, "Predict", "GRPC")
              ELSE requestLatency
        /\ requestCount' = RecordModelRequestCount(requestCount, model_name, tf_status)
        /\ rpc' = Rpc("Predict", model_name, deadline, mono, run_options, TRUE,
                      tf_status, status)
        /\ UNCHANGED <<enforce_session_run_timeout_, fillVars, factoryVars, tfliteVars, batchVars, parseVars>>

GetModelMetadata(model_name, deadline, mono, tf_status) ==
    LET status == ToGRPCStatus(tf_status)
    IN  /\ Calls < MaxCalls
        /\ serviceCalls' = [serviceCalls EXCEPT !["GetModelMetadata"] = @ + 1]
        /\ rpc' = Rpc("GetModelMetadata", model_name, deadline, mono,
                      DefaultRunOptions, FALSE, tf_status, status)
        /\ UNCHANGED <<enforce_session_run_timeout_, requestCount, requestLatency,
                       fillVars, factoryVars, tfliteVars, batchVars, parseVars>>

\* variant: a failed service call is tried a second time
Classify_RetryOnFailure(model_name, deadline, mono, tf_status) ==
    LET run_options == MakeRunOptions(enforce_session_run_timeout_, deadline, mono)
        status == ToGRPCStatus(tf_status)
    IN  /\ Calls < MaxCalls
        /\ serviceCalls' = [serviceCalls EXCEPT
                               !["Classify"] = @ + (IF ok(tf_status) THEN 1 ELSE 2)]
        /\ requestLatency' =
              IF ok(status)
              THEN RecordRequestLatency(requestLatency, model_name, "Classify", "GRPC")
              ELSE requestLatency
        /\ requestCount' = RecordModelRequestCount(requestCount, model_name, tf_status)
        /\ rpc' = Rpc("Classify", model_name, deadline, mono, run_options, TRUE,
                      tf_status, status)
        /\ UNCHANGED <<enforce_session_run_timeout_, fillVars, factoryVars, tfliteVars, batchVars, parseVars>>

Classify(model_name, deadline, mono, tf_status) ==
    LET run_options == MakeRunOptions(enforce_session_run_timeout_, deadline, mono)
        status == ToGRPCStatus(tf_status)
    IN  /\ Calls < MaxCalls
        /\ serviceCalls' = [serviceCalls EXCEPT !["Classify"] = @ + 1]
        /\ requestLatency' =
              IF ok(status)
              THEN RecordRequestLatency(requestLatency, model_name, "Classify", "GRPC")
              ELSE requestLatency
        /\ requestCount' = RecordModelRequestCount(requestCount, model_name, tf_status)
        /\ rpc' = Rpc("Classify", model_name, deadline, mono, run_options, TRUE,
                      tf_status, status)
        /\ UNCHANGED <<enforce_session_run_timeout_, fillVars, factoryVars, tfliteVars, batchVars, parseVars>>

\* variant: the latency sample is recorded outside the success branch
Regress_LatencyAlways(model_name, deadline, mono, tf_status) ==
    LET run_options == MakeRunOptions(enforce_session_run_timeout_, deadline, mono)
        status == ToGRPCStatus(tf_status)
    IN  /\ Calls < MaxCalls
        /\ serviceCalls' = [serviceCalls EXCEPT !["Regress"] = @ + 1]
        /\ requestLatency' =
              RecordRequestLatency(requestLatency, model_name, "Regress", "GRPC")
        /\ requestCount' = RecordModelRequestCount(requestCount, model_name, tf_status)
        /\ rpc' = Rpc("Regress", model_name, deadline, mono, run_options, TRUE,
                      tf_status, status)
        /\ UNCHANGED <<enforce_session_run_timeout_, fillVars, factoryVars, tfliteVars, batchVars, parseVars>>

Regress(model_name, deadline, mono, tf_status) ==
    LET run_options == MakeRunOptions(enforce_session_run_timeout_, deadline, mono)
        status == ToGRPCStatus(tf_status)
    IN  /\ Calls < MaxCalls
        /\ serviceCalls' = [serviceCalls EXCEPT !["Regress"] = @ + 1]
        /\ requestLatency' =
              IF ok(status)
              THEN RecordRequestLatency(requestLatency, model_name, "Regress", "GRPC")
              ELSE requestLatency
        /\ requestCount' = RecordModelRequestCount(requestCount, model_name, tf_status)
        /\ rpc' = Rpc("Regress", model_name, deadline, mono, run_options, TRUE,
                      tf_status, status)
        /\ UNCHANGED <<enforce_session_run_timeout_, fillVars, factoryVars, tfliteVars, batchVars, parseVars>>

MultiInference(model_name, deadline, mono, tf_status) ==
    LET run_options == MakeRunOptions(enforce_session_run_timeout_, deadline, mono)
        status == ToGRPCStatus(tf_status)
    IN  /\ Calls < MaxCalls
        /\ serviceCalls' = [serviceCalls EXCEPT !["MultiInference"] = @ + 1]
        /\ rpc' = Rpc("MultiInference", model_name, deadline, mono, run_options, TRUE,
                      tf_status, status)
        /\ UNCHANGED <<enforce_session_run_timeout_, requestCount, requestLatency,
                       fillVars, factoryVars, tfliteVars, batchVars, parseVars>>

----------------------------------------------------------------------------
(* http_rest_api_util: FillModelSpecWithNameVersionAndLabel *)

MaxFills == 2

\* absl::optional<T>
nullopt(default) == [has_value |-> FALSE, value |-> default]
optional(v) == [has_value |-> TRUE, value |-> v]

\* ModelSpec proto: version (a wrapper message with presence) and
\* version_label (a string) are the two members of the oneof version_choice:
\* setting one clears the other
ModelSpec(name, has_version, version, version_label) ==
    [name |-> name, has_version |-> has_version, version |-> version,
     version_label |-> version_label]

DefaultModelSpec == ModelSpec("", FALSE, 0, "")

InvalidArgument(message) == [code |-> "INVALID_ARGUMENT", error_message |-> message]

\* variant: a supplied version wins over a supplied label instead of failing
FillModelSpecWithNameVersionAndLabel_VersionWins(model_name, model_version, model_version_label, model_spec) ==
    LET named == [model_spec EXCEPT !.name = model_name]
    IN  IF model_version.has_value
        THEN [model_spec |-> [named EXCEPT !.has_version = TRUE,
                                           !.version = model_version.value,
                                           !.version_label = ""],
              status |-> StatusOK]
        ELSE IF model_version_label.has_value
        THEN [model_spec |-> [named EXCEPT !.version_label = model_version_label.value,
                                           !.has_version = FALSE,
                                           !.version = 0],
              status |-> StatusOK]
        ELSE [model_spec |-> named, status |-> StatusOK]

\* returns the model spec as the call leaves it and the status of the call
FillModelSpecWithNameVersionAndLabel(model_name, model_version, model_version_label, model_spec) ==
    LET named == [model_spec EXCEPT !.name = model_name]
        versioned == IF model_version.has_value
                     THEN [named EXCEPT !.has_version = TRUE,
                                        !.version = model_version.value,
                                        !.version_label = ""]
                     ELSE named
        labelled == IF model_version_label.has_value
                    THEN [versioned EXCEPT !.version_label = model_version_label.value,
                                           !.has_version = FALSE,
                                           !.version = 0]
                    ELSE versioned
    IN  IF model_version.has_value /\ model_version_label.has_value
        THEN [model_spec |-> named,
              status |-> InvalidArgument(
                  "Both model version (" \o ToString(model_version.value) \o
                  ") and model version label (" \o model_version_label.value \o
                  ") cannot be supplied.")]
        ELSE [model_spec |-> labelled, status |-> StatusOK]

\* inputs
FillVersions == {nullopt(0), optional(1), optional(42)}
FillLabels == {nullopt(""), optional("stable"), optional("canary"), optional("")}
FillSpecs == {DefaultModelSpec,
              ModelSpec("previous", TRUE, 7, ""),
              ModelSpec("previous", FALSE, 0, "old")}

NoFill == [model_name |-> "", model_version |-> nullopt(0),
           model_version_label |-> nullopt(""), spec_before |-> DefaultModelSpec,
           model_spec |-> DefaultModelSpec, status |-> StatusOK]

\* a caller fills the model spec of its request
Fill(model_name, model_version, model_version_label, model_spec) ==
    LET r == FillModelSpecWithNameVersionAndLabel(
                 model_name, model_version, model_version_label, model_spec)
    IN  /\ fillCalls < MaxFills
        /\ fillCalls' = fillCalls + 1
        /\ fill' = [model_name |-> model_name, model_version |-> model_version,
                    model_version_label |-> model_version_label,
                    spec_before |-> model_spec,
                    model_spec |-> r.model_spec, status |-> r.status]
        /\ UNCHANGED <<dispatcherVars, factoryVars, tfliteVars, batchVars, parseVars>>

----------------------------------------------------------------------------
(* SavedModelBundleFactory *)

MaxLoads == 2

kSavedModelTagServe == "serve"
kTfLiteModelFilename == "model.tflite"

nullptr == 0

Error(code, message) == [code |-> code, error_message |-> message]

\* SignatureDef and the signature_def map of a MetaGraphDef (key -> SignatureDef)
\* a SignatureDef: its method name and the keys of its inputs and outputs
SignatureDef(method_name, inputs, outputs) ==
    [method_name |-> method_name, inputs |-> inputs, outputs |-> outputs]

kClassifyMethodName == "tensorflow/serving/classify"

kPredictMethodName == "tensorflow/serving/predict"

NoSignatures == [k \in {} |-> SignatureDef("", {}, {})]

\* one signature under the default serving key
ServingDefault ==
    [k \in {"serving_default"} |->
        SignatureDef(kClassifyMethodName, {"input_list", "input_shape"}, {"sigdef_output"})]

\* two signatures that differ in their input only
TwoSignatures ==
    [k \in {"signature1", "signature2"} |->
        IF k = "signature1"
        THEN SignatureDef(kClassifyMethodName, {"input_list"}, {"sigdef_output"})
        ELSE SignatureDef(kClassifyMethodName, {"input_shape"}, {"sigdef_output"})]

MetaGraphDef(meta_info_def, graph_def, signature_def) ==
    [meta_info_def |-> meta_info_def, graph_def |-> graph_def,
     signature_def |-> signature_def]

DefaultMetaGraphDef == MetaGraphDef("", "", NoSignatures)

\* what is stored under a model directory: the files by name, the signatures
\* embedded in model.tflite when it parses, and the meta graphs of the saved
\* model by tag set
Artifact(files, tflite_valid, tflite_signatures, meta_graphs) ==
    [files |-> files, tflite_valid |-> tflite_valid,
     tflite_signatures |-> tflite_signatures, meta_graphs |-> meta_graphs]

ServeGraph == [tags |-> {"serve"},
               meta_graph_def |-> MetaGraphDef("tf 2.4", "graph(serve)", TwoSignatures)]
GpuGraph == [tags |-> {"serve", "gpu"},
             meta_graph_def |-> MetaGraphDef("tf 2.4", "graph(gpu)", ServingDefault)]

Paths == {"/models/tflite_only/123", "/models/both/123", "/models/saved_model/123",
          "/models/gpu/123", "/models/corrupt_tflite/123", "/models/missing/123"}

Storage == [path \in Paths |->
    IF path = "/models/tflite_only/123"
    THEN Artifact({"model.tflite"}, TRUE, ServingDefault, {})
    ELSE IF path = "/models/both/123"
    THEN Artifact({"model.tflite", "saved_model.pb"}, TRUE, ServingDefault, {ServeGraph})
    ELSE IF path = "/models/saved_model/123"
    THEN Artifact({"saved_model.pb"}, FALSE, NoSignatures, {ServeGraph})
    ELSE IF path = "/models/gpu/123"
    THEN Artifact({"saved_model.pb"}, FALSE, NoSignatures, {ServeGraph, GpuGraph})
    ELSE IF path = "/models/corrupt_tflite/123"
    THEN Artifact({"model.tflite", "saved_model.pb"}, FALSE, NoSignatures, {ServeGraph})
    ELSE Artifact({}, FALSE, NoSignatures, {})]

\* SessionBundleConfig, the fields the factory reads
SessionBundleConfig(tags, prefer_tflite, interpreters, remove_unused, batching) ==
    [saved_model_tags |-> tags, prefer_tflite_model |-> prefer_tflite,
     num_tflite_interpreters |-> interpreters,
     remove_unused_fields_from_bundle_metagraph |-> remove_unused,
     has_batching_parameters |-> batching]

Configs == {SessionBundleConfig(t, p, IF p THEN 4 ELSE 1, r, b) :
              t \in {{}, {"serve"}, {"serve", "gpu"}},
              p \in BOOLEAN, r \in BOOLEAN, b \in BOOLEAN}

DefaultConfig == SessionBundleConfig({}, FALSE, 1, FALSE, FALSE)

\* Loader::Metadata: the servable id
Metadata(name, version) == [servable_id |-> [name |-> name, version |-> version]]

NoMetadata == nullopt(Metadata("", 0))

Metadatas == {optional(Metadata("half_plus_two", 123)), optional(Metadata("mobilenet", 7))}

\* a session: the backend variant, what it was built with, and the wrapper
\* the factory put around it
NoSession == [kind |-> "none", session_metadata |-> nullopt([name |-> "", version |-> 0]),
              tags |-> {}, num_interpreters |-> 0,
              wrapper |-> "none", scheduler |-> nullptr, signatures |-> EmptyBag]

\* new SavedModelBundle
NewSavedModelBundle == [session |-> NoSession, meta_graph_def |-> DefaultMetaGraphDef]

\* bundle_factory_util: the session options the configuration asks for
GetSessionOptions(config_) ==
    [target |-> "", session_metadata |-> nullopt([name |-> "", version |-> 0])]

GetRunOptions(config_) == DefaultRunOptions

\* variant: only the first of the signatures is extracted
GetSignatureDefs_DefaultOnly(bundle) ==
    LET signature_def == bundle.meta_graph_def.signature_def
        keys == DOMAIN signature_def \cap {"serving_default", "signature1"}
    IN  [v \in {signature_def[k] : k \in keys} |->
            Cardinality({k \in keys : signature_def[k] = v})]

\* Extracts the signatures from 'bundle': one entry of the vector for every
\* key of the map, in the map's iteration order, which is left open; the
\* vector is kept as the bag of its entries
GetSignatureDefs(bundle) ==
    LET signature_def == bundle.meta_graph_def.signature_def
    IN  [v \in {signature_def[k] : k \in DOMAIN signature_def} |->
            Cardinality({k \in DOMAIN signature_def : signature_def[k] = v})]

\* TfLiteSession::Create: parses the model bytes, replaces the content of the
\* signature map by the signatures embedded in the model
TfLiteSessionCreate(artifact, signatures, num_interpreters) ==
    IF artifact.tflite_valid
    THEN [status |-> StatusOK, signatures |-> artifact.tflite_signatures,
          session |-> [NoSession EXCEPT !.kind = "tflite",
                                        !.num_interpreters = num_interpreters]]
    ELSE [status |-> Error("INVALID_ARGUMENT", "Cannot build FlatBufferModel from buffer."),
          signatures |-> signatures, session |-> NoSession]

\* variant: the session is created on a signature map that is not the bundle's
LoadTfLiteModel_SignaturesNotStored(model_dir, bundle, num_interpreters) ==
    IF kTfLiteModelFilename \notin Storage[model_dir].files
    THEN [status |-> Error("NOT_FOUND", model_dir \o "/" \o kTfLiteModelFilename),
          bundle |-> bundle]
    ELSE LET created == TfLiteSessionCreate(Storage[model_dir],
                                            bundle.meta_graph_def.signature_def,
                                            num_interpreters)
         IN  IF ~ok(created.status)
             THEN [status |-> created.status, bundle |-> bundle]
             ELSE [status |-> StatusOK,
                   bundle |-> [bundle EXCEPT !.session = created.session]]

LoadTfLiteModel(model_dir, bundle, num_interpreters) ==
    IF kTfLiteModelFilename \notin Storage[model_dir].files
    THEN [status |-> Error("NOT_FOUND", model_dir \o "/" \o kTfLiteModelFilename),
          bundle |-> bundle]
    ELSE LET created == TfLiteSessionCreate(Storage[model_dir],
                                            bundle.meta_graph_def.signature_def,
                                            num_interpreters)
         IN  IF ~ok(created.status)
             THEN [status |-> created.status, bundle |-> bundle]
             ELSE [status |-> StatusOK,
                   bundle |-> [bundle EXCEPT
                                 !.meta_graph_def.signature_def = created.signatures,
                                 !.session = created.session]]

TfLiteModelFound(model_dir) == kTfLiteModelFilename \in Storage[model_dir].files

\* session_bundle_util: loads the meta graph whose tags are the requested ones
LoadSessionBundleOrSavedModelBundle(session_options, run_options, path, saved_model_tags, bundle) ==
    LET graphs == Storage[path].meta_graphs
        matching == {g \in graphs : g.tags = saved_model_tags}
    IN  IF graphs = {}
        THEN [status |-> Error("NOT_FOUND", "no saved model under " \o path),
              bundle |-> bundle]
        ELSE IF matching = {}
        THEN [status |-> Error("INVALID_ARGUMENT", "no meta graph matches the tags"),
              bundle |-> bundle]
        ELSE LET g == CHOOSE g \in matching : TRUE
             IN  [status |-> StatusOK,
                  bundle |-> [bundle EXCEPT
                     !.meta_graph_def = g.meta_graph_def,
                     !.session = [NoSession EXCEPT
                         !.kind = "direct",
                         !.session_metadata = session_options.session_metadata,
                         !.tags = saved_model_tags]]]

\* bundle_factory_util: the pass-through wrapper
WrapSession(session) ==
    [status |-> StatusOK, session |-> [session EXCEPT !.wrapper = "SessionWrapper"]]

\* bundle_factory_util: the batching wrapper, bound to the scheduler and the
\* signatures; wrap_status is what building it returns
WrapSessionForBatching(batch_scheduler, signatures, session, wrap_status) ==
    IF ~ok(wrap_status)
    THEN [status |-> wrap_status, session |-> session]
    ELSE [status |-> StatusOK,
          session |-> [session EXCEPT !.wrapper = "BatchingSession",
                                      !.scheduler = batch_scheduler,
                                      !.signatures = signatures]]

\* the tag set a load asks for
ActiveTags(config_) ==
    IF config_.saved_model_tags = {} THEN {kSavedModelTagServe}
    ELSE config_.saved_model_tags

\* the session options of a load
SessionOptionsOf(config_, metadata) ==
    IF metadata.has_value
    THEN [GetSessionOptions(config_) EXCEPT
            !.session_metadata = optional([name |-> metadata.value.servable_id.name,
                                           version |-> metadata.value.servable_id.version])]
    ELSE GetSessionOptions(config_)

\* variant: the full engine is tried when the lightweight load fails
LoadBackend_FallBack(config_, session_options, saved_model_tags, path, bundle) ==
    LET lite == LoadTfLiteModel(path, bundle, config_.num_tflite_interpreters)
        full == LoadSessionBundleOrSavedModelBundle(
                    session_options, GetRunOptions(config_), path, saved_model_tags, bundle)
    IN  IF config_.prefer_tflite_model /\ TfLiteModelFound(path)
        THEN IF ok(lite.status)
             THEN [status |-> lite.status, bundle |-> lite.bundle,
                   attempts |-> <<[loader |-> "LoadTfLiteModel",
                                   num_interpreters |-> config_.num_tflite_interpreters,
                                   session_metadata |-> nullopt([name |-> "", version |-> 0]),
                                   tags |-> {}]>>]
             ELSE [status |-> full.status, bundle |-> full.bundle,
                   attempts |-> <<[loader |-> "LoadTfLiteModel",
                                   num_interpreters |-> config_.num_tflite_interpreters,
                                   session_metadata |-> nullopt([name |-> "", version |-> 0]),
                                   tags |-> {}],
                                  [loader |-> "LoadSessionBundleOrSavedModelBundle",
                                   num_interpreters |-> 0,
                                   session_metadata |-> session_options.session_metadata,
                                   tags |-> saved_model_tags]>>]
        ELSE [status |-> full.status, bundle |-> full.bundle,
              attempts |-> <<[loader |-> "LoadSessionBundleOrSavedModelBundle",
                              num_interpreters |-> 0,
                              session_metadata |-> session_options.session_metadata,
                              tags |-> saved_model_tags]>>]

\* the choice of the backend loader and its call; attempts lists the loader
\* calls made, each with the arguments it was given
LoadBackend(config_, session_options, saved_model_tags, path, bundle) ==
    IF config_.prefer_tflite_model /\ TfLiteModelFound(path)
    THEN LET lite == LoadTfLiteModel(path, bundle, config_.num_tflite_interpreters)
         IN  [status |-> lite.status, bundle |-> lite.bundle,
              attempts |-> <<[loader |-> "LoadTfLiteModel",
                              num_interpreters |-> config_.num_tflite_interpreters,
                              session_metadata |-> nullopt([name |-> "", version |-> 0]),
                              tags |-> {}]>>]
    ELSE LET full == LoadSessionBundleOrSavedModelBundle(
                         session_options, GetRunOptions(config_), path,
                         saved_model_tags, bundle)
         IN  [status |-> full.status, bundle |-> full.bundle,
              attempts |-> <<[loader |-> "LoadSessionBundleOrSavedModelBundle",
                              num_interpreters |-> 0,
                              session_metadata |-> session_options.session_metadata,
                              tags |-> saved_model_tags]>>]

\* variant: the signature definitions are not swapped back
TrimMetaGraph_DropsSignatures(config_, bundle) ==
    IF config_.remove_unused_fields_from_bundle_metagraph
    THEN [bundle EXCEPT !.meta_graph_def = DefaultMetaGraphDef]
    ELSE bundle

\* keeps signature_def and drops every other field of the meta graph
TrimMetaGraph(config_, bundle) ==
    IF config_.remove_unused_fields_from_bundle_metagraph
    THEN [bundle EXCEPT
            !.meta_graph_def = [DefaultMetaGraphDef EXCEPT
                                  !.signature_def = bundle.meta_graph_def.signature_def]]
    ELSE bundle

\* variant: the scheduler is not looked at before the session is wrapped
WrapBundleSession_NoSchedulerCheck(f, bundle, wrap_status) ==
    IF f.config.has_batching_parameters
    THEN LET w == WrapSessionForBatching(f.batch_scheduler, GetSignatureDefs(bundle),
                                         bundle.session, wrap_status)
         IN  [status |-> w.status, bundle |-> [bundle EXCEPT !.session = w.session],
              steps |-> <<"GetSignatureDefs", "WrapSessionForBatching">>]
    ELSE LET w == WrapSession(bundle.session)
         IN  [status |-> w.status, bundle |-> [bundle EXCEPT !.session = w.session],
              steps |-> <<"WrapSession">>]

\* variant: the pass-through wrapper is used whatever the configuration says
WrapBundleSession_AlwaysPlain(f, bundle, wrap_status) ==
    LET w == WrapSession(bundle.session)
    IN  [status |-> w.status, bundle |-> [bundle EXCEPT !.session = w.session],
         steps |-> <<"WrapSession">>]

\* the last step of a load: the batching wrapper when batching is configured,
\* the pass-through wrapper otherwise
WrapBundleSession(f, bundle, wrap_status) ==
    IF f.config.has_batching_parameters
    THEN IF f.batch_scheduler = nullptr
         THEN [status |-> Error("INTERNAL", "batch_scheduler_ not set"),
               bundle |-> bundle, steps |-> <<>>]
         ELSE LET w == WrapSessionForBatching(f.batch_scheduler, GetSignatureDefs(bundle),
                                              bundle.session, wrap_status)
              IN  [status |-> w.status, bundle |-> [bundle EXCEPT !.session = w.session],
                   steps |-> <<"GetSignatureDefs", "WrapSessionForBatching">>]
    ELSE LET w == WrapSession(bundle.session)
         IN  [status |-> w.status, bundle |-> [bundle EXCEPT !.session = w.session],
              steps |-> <<"WrapSession">>]

\* returns the status, whether *bundle holds a bundle and which, the loader
\* calls made and the steps taken after the loader call; *bundle is reset to
\* a new SavedModelBundle before anything else and is not reset again
InternalCreateSavedModelBundle(f, metadata, path, wrap_status) ==
    LET saved_model_tags == ActiveTags(f.config)
        session_options == SessionOptionsOf(f.config, metadata)
        loaded == LoadBackend(f.config, session_options, saved_model_tags, path,
                              NewSavedModelBundle)
        trimmed == TrimMetaGraph(f.config, loaded.bundle)
        trim_steps == IF f.config.remove_unused_fields_from_bundle_metagraph
                      THEN <<"Swap">> ELSE <<>>
        wrapped == WrapBundleSession(f, trimmed, wrap_status)
    IN  IF ~ok(loaded.status)
        THEN [status |-> loaded.status, has_bundle |-> TRUE, bundle |-> loaded.bundle,
              attempts |-> loaded.attempts, steps |-> <<>>]
        ELSE [status |-> wrapped.status, has_bundle |-> TRUE, bundle |-> wrapped.bundle,
              attempts |-> loaded.attempts, steps |-> trim_steps \o wrapped.steps]

\* new SavedModelBundleFactory(config, batch_scheduler)
SavedModelBundleFactory(config, batch_scheduler) ==
    [created |-> TRUE, config |-> config, batch_scheduler |-> batch_scheduler,
     create_status |-> StatusOK]

NoFactory == [created |-> FALSE, config |-> DefaultConfig, batch_scheduler |-> nullptr,
              create_status |-> StatusOK]

NoLoad == [entry |-> "none", metadata |-> NoMetadata, path |-> "",
           status |-> StatusOK, has_bundle |-> FALSE, bundle |-> NewSavedModelBundle,
           attempts |-> <<>>, steps |-> <<>>]

\* variant: the factory is built without the scheduler that was created
Create_SchedulerNotKept(config, scheduler_status) ==
    /\ ~factory.created
    /\ IF config.has_batching_parameters /\ ~ok(scheduler_status)
       THEN /\ factory' = [NoFactory EXCEPT !.create_status = scheduler_status]
            /\ UNCHANGED schedulers
       ELSE IF config.has_batching_parameters
       THEN /\ factory' = SavedModelBundleFactory(config, nullptr)
            /\ schedulers' = schedulers + 1
       ELSE /\ factory' = SavedModelBundleFactory(config, nullptr)
            /\ UNCHANGED schedulers
    /\ UNCHANGED <<load, loads, dispatcherVars, fillVars, tfliteVars, batchVars, parseVars>>

\* SavedModelBundleFactory::Create; scheduler_status is what
\* CreateBatchScheduler returns for the batching parameters
Create(config, scheduler_status) ==
    /\ ~factory.created
    /\ IF config.has_batching_parameters /\ ~ok(scheduler_status)
       THEN /\ factory' = [NoFactory EXCEPT !.create_status = scheduler_status]
            /\ UNCHANGED schedulers
       ELSE IF config.has_batching_parameters
       THEN /\ factory' = SavedModelBundleFactory(config, schedulers + 1)
            /\ schedulers' = schedulers + 1
       ELSE /\ factory' = SavedModelBundleFactory(config, nullptr)
            /\ UNCHANGED schedulers
    /\ UNCHANGED <<load, loads, dispatcherVars, fillVars, tfliteVars, batchVars, parseVars>>

CreateSavedModelBundleWithMetadata(metadata, path, wrap_status) ==
    LET r == InternalCreateSavedModelBundle(factory, optional(metadata), path, wrap_status)
    IN  /\ factory.created
        /\ loads < MaxLoads
        /\ loads' = loads + 1
        /\ load' = [entry |-> "CreateSavedModelBundleWithMetadata",
                    metadata |-> optional(metadata), path |-> path,
                    status |-> r.status, has_bundle |-> r.has_bundle,
                    bundle |-> r.bundle,
                    attempts |-> r.attempts, steps |-> r.steps]
        /\ UNCHANGED <<factory, schedulers, dispatcherVars, fillVars, tfliteVars, batchVars, parseVars>>

CreateSavedModelBundle(path, wrap_status) ==
    LET r == InternalCreateSavedModelBundle(factory, NoMetadata, path, wrap_status)
    IN  /\ factory.created
        /\ loads < MaxLoads
        /\ loads' = loads + 1
        /\ load' = [entry |-> "CreateSavedModelBundle",
                    metadata |-> NoMetadata, path |-> path,
                    status |-> r.status, has_bundle |-> r.has_bundle,
                    bundle |-> r.bundle,
                    attempts |-> r.attempts, steps |-> r.steps]
        /\ UNCHANGED <<factory, schedulers, dispatcherVars, fillVars, tfliteVars, batchVars, parseVars>>

MaxTfLiteCreates == 2

\* signature maps a caller may hold before TfLiteSession::Create fills them
ResidualSignature == [k \in {"residual_signature"} |-> SignatureDef("", {}, {})]

\* the signature of another model under the default serving key
StaleServingDefault ==
    [k \in {"serving_default"} |-> SignatureDef(kPredictMethodName, {"x"}, {"y"})]

SignatureMaps == {NoSignatures, ResidualSignature, StaleServingDefault}

TfLiteModels ==
    {Storage[p] : p \in {"/models/tflite_only/123", "/models/corrupt_tflite/123"}}
      \cup {Artifact({"model.tflite"}, TRUE, TwoSignatures, {})}

NoTfLite == [model |-> Storage["/models/missing/123"], signatures_before |-> NoSignatures,
             status |-> StatusOK, signatures |-> NoSignatures, session |-> NoSession]

\* a direct call of TfLiteSession::Create(model_bytes, &session, &signatures)
TfLiteCreate(model, signatures, num_interpreters) ==
    LET created == TfLiteSessionCreate(model, signatures, num_interpreters)
    IN  /\ tfliteCalls < MaxTfLiteCreates
        /\ tfliteCalls' = tfliteCalls + 1
        /\ tflite' = [model |-> model, signatures_before |-> signatures,
                      status |-> created.status, signatures |-> created.signatures,
                      session |-> created.session]
        /\ UNCHANGED <<dispatcherVars, fillVars, factoryVars, batchVars, parseVars>>

\* what building the scheduler or the batching wrapper may return
UtilStatuses == {StatusOK, Error("INVALID_ARGUMENT", "bad batching parameters")}

----------------------------------------------------------------------------
(* The batching scheduler behind WrapSessionForBatching *)

MaxTasks == 3
MaxBatchSize == 2
MaxBatchLatency == 2
NumBatchThreads == 1

SignatureKeys == {"serving_default", "regress_x_to_y"}

\* scalar inputs of the tasks
TaskInputs == {2, 6}

\* what the physical execution call may return
RunStatuses == {StatusOK, Error("UNAVAILABLE", "backend run failed")}

Cancelled == Error("CANCELLED", "scheduler shut down")

\* the open group of a signature: its tasks in arrival order and the time the
\* oldest of them has waited
EmptyGroup == [ids |-> <<>>, age |-> 0]

Range(seq) == {seq[i] : i \in DOMAIN seq}

\* the servable run on one input
Servable(x) == x \div 2 + 2

\* the physical execution call on the concatenated inputs of a batch
RunBatch(inputs) == [i \in DOMAIN inputs |-> Servable(inputs[i])]

\* variant: the slices are handed out from the end of the output
SplitOutputs_Reversed(outputs, n) == [i \in 1..n |-> outputs[n + 1 - i]]

\* the output of a batch cut into one slice per task, in task order
SplitOutputs(outputs, n) == [i \in 1..n |-> outputs[i]]

PendingTask(sig, input) ==
    [sig |-> sig, input |-> input, state |-> "Queued", completions |-> 0,
     result |-> -1, error |-> StatusOK]

Batch(sig, ids, reason, waited) ==
    [sig |-> sig, ids |-> ids, state |-> "Closed", runs |-> 0, reason |-> reason,
     waited |-> waited, status |-> StatusOK]

\* the tasks ts with the state of those in ids changed
WithState(ts, ids, state) ==
    [i \in DOMAIN ts |-> IF i \in Range(ids) THEN [ts[i] EXCEPT !.state = state] ELSE ts[i]]

\* the position of task id in the batch
PositionIn(ids, id) == CHOOSE i \in DOMAIN ids : ids[i] = id

\* variant: a group is closed one task after it reached the maximum size
Enqueue_ClosesLate(sig, input) ==
    LET id == Len(tasks) + 1
        ids == Append(open[sig].ids, id)
        queued == Append(tasks, PendingTask(sig, input))
    IN  /\ ~shutdown
        /\ Len(tasks) < MaxTasks
        /\ IF Len(ids) > MaxBatchSize
           THEN /\ tasks' = WithState(queued, ids, "Batched")
                /\ batches' = Append(batches, Batch(sig, ids, "size", open[sig].age))
                /\ open' = [open EXCEPT ![sig] = EmptyGroup]
           ELSE /\ tasks' = queued
                /\ open' = [open EXCEPT ![sig].ids = ids]
                /\ UNCHANGED batches
        /\ UNCHANGED <<shutdown, dispatcherVars, fillVars, factoryVars, tfliteVars, parseVars>>

\* a caller enqueues a task; the group of its signature closes when the task
\* fills it
Enqueue(sig, input) ==
    LET id == Len(tasks) + 1
        ids == Append(open[sig].ids, id)
        queued == Append(tasks, PendingTask(sig, input))
    IN  /\ ~shutdown
        /\ Len(tasks) < MaxTasks
        /\ IF Len(ids) >= MaxBatchSize
           THEN /\ tasks' = WithState(queued, ids, "Batched")
                /\ batches' = Append(batches, Batch(sig, ids, "size", open[sig].age))
                /\ open' = [open EXCEPT ![sig] = EmptyGroup]
           ELSE /\ tasks' = queued
                /\ open' = [open EXCEPT ![sig].ids = ids]
                /\ UNCHANGED batches
        /\ UNCHANGED <<shutdown, dispatcherVars, fillVars, factoryVars, tfliteVars, parseVars>>

\* time passes for the tasks that wait in an open group, up to the maximum
\* batch latency
Tick ==
    /\ \E sig \in SignatureKeys : open[sig].ids # <<>>
    /\ \A sig \in SignatureKeys : open[sig].ids # <<>> => open[sig].age < MaxBatchLatency
    /\ open' = [sig \in SignatureKeys |->
                  IF open[sig].ids # <<>>
                  THEN [open[sig] EXCEPT !.age = @ + 1] ELSE open[sig]]
    /\ UNCHANGED <<tasks, batches, shutdown, dispatcherVars, fillVars, factoryVars,
                   tfliteVars, parseVars>>

\* variant: the closed batch is cut off but its tasks stay in the open group
CloseOnTimeout_KeepsGroup(sig) ==
    /\ open[sig].ids # <<>>
    /\ open[sig].age >= MaxBatchLatency
    /\ Len(batches) < MaxTasks
    /\ tasks' = WithState(tasks, open[sig].ids, "Batched")
    /\ batches' = Append(batches, Batch(sig, open[sig].ids, "timeout", open[sig].age))
    /\ open' = [open EXCEPT ![sig].age = 0]
    /\ UNCHANGED <<shutdown, dispatcherVars, fillVars, factoryVars, tfliteVars, parseVars>>

\* the oldest task of a group has waited the maximum batch latency: the group
\* closes
CloseOnTimeout(sig) ==
    /\ open[sig].ids # <<>>
    /\ open[sig].age >= MaxBatchLatency
    /\ tasks' = WithState(tasks, open[sig].ids, "Batched")
    /\ batches' = Append(batches, Batch(sig, open[sig].ids, "timeout", open[sig].age))
    /\ open' = [open EXCEPT ![sig] = EmptyGroup]
    /\ UNCHANGED <<shutdown, dispatcherVars, fillVars, factoryVars, tfliteVars, parseVars>>

\* a batch worker takes a closed batch
StartBatch(b) ==
    /\ batches[b].state = "Closed"
    /\ Cardinality({i \in DOMAIN batches : batches[i].state = "Executing"}) < NumBatchThreads
    /\ batches' = [batches EXCEPT ![b].state = "Executing"]
    /\ tasks' = WithState(tasks, batches[b].ids, "Executing")
    /\ UNCHANGED <<open, shutdown, dispatcherVars, fillVars, factoryVars, tfliteVars, parseVars>>

\* variant: a failed batch goes back to the closed batches to be run again
FinishBatch_RetriesOnError(b, status) ==
    LET ids == batches[b].ids
        outputs == SplitOutputs(RunBatch([i \in DOMAIN ids |-> tasks[ids[i]].input]),
                                Len(ids))
    IN  /\ batches[b].state = "Executing"
        /\ batches[b].runs < MaxTasks
        /\ IF ok(status)
           THEN /\ batches' = [batches EXCEPT ![b].state = "Done", ![b].runs = @ + 1,
                                              ![b].status = status]
                /\ tasks' = [i \in DOMAIN tasks |->
                      IF i \in Range(ids)
                      THEN [tasks[i] EXCEPT !.state = "Completed",
                                            !.completions = @ + 1,
                                            !.result = outputs[PositionIn(ids, i)]]
                      ELSE tasks[i]]
           ELSE /\ batches' = [batches EXCEPT ![b].state = "Closed", ![b].runs = @ + 1,
                                              ![b].status = status]
                /\ tasks' = WithState(tasks, ids, "Batched")
        /\ UNCHANGED <<open, shutdown, dispatcherVars, fillVars, factoryVars, tfliteVars, parseVars>>

\* the physical execution call of a batch returns: on success every task gets
\* its slice of the output, on failure every task gets the error
FinishBatch(b, status) ==
    LET ids == batches[b].ids
        outputs == SplitOutputs(RunBatch([i \in DOMAIN ids |-> tasks[ids[i]].input]),
                                Len(ids))
    IN  /\ batches[b].state = "Executing"
        /\ batches' = [batches EXCEPT ![b].state = "Done", ![b].runs = @ + 1,
                                      ![b].status = status]
        /\ tasks' = [i \in DOMAIN tasks |->
              IF i \in Range(ids)
              THEN IF ok(status)
                   THEN [tasks[i] EXCEPT !.state = "Completed",
                                         !.completions = @ + 1,
                                         !.result = outputs[PositionIn(ids, i)]]
                   ELSE [tasks[i] EXCEPT !.state = "Failed",
                                         !.completions = @ + 1,
                                         !.error = status]
              ELSE tasks[i]]
        /\ UNCHANGED <<open, shutdown, dispatcherVars, fillVars, factoryVars, tfliteVars, parseVars>>

\* variant: the tasks of closed batches are cancelled as well
Shutdown_CancelsBatched ==
    /\ ~shutdown
    /\ shutdown' = TRUE
    /\ tasks' = [i \in DOMAIN tasks |->
          IF tasks[i].state \in {"Queued", "Batched"}
          THEN [tasks[i] EXCEPT !.state = "Cancelled", !.completions = @ + 1,
                                !.error = Cancelled]
          ELSE tasks[i]]
    /\ open' = [sig \in SignatureKeys |-> EmptyGroup]
    /\ UNCHANGED <<batches, dispatcherVars, fillVars, factoryVars, tfliteVars, parseVars>>

\* the scheduler is shut down: the tasks that wait in an open group are
\* cancelled, the closed batches are still run
Shutdown ==
    /\ ~shutdown
    /\ shutdown' = TRUE
    /\ tasks' = [i \in DOMAIN tasks |->
          IF tasks[i].state = "Queued"
          THEN [tasks[i] EXCEPT !.state = "Cancelled", !.completions = @ + 1,
                                !.error = Cancelled]
          ELSE tasks[i]]
    /\ open' = [sig \in SignatureKeys |-> EmptyGroup]
    /\ UNCHANGED <<batches, dispatcherVars, fillVars, factoryVars, tfliteVars, parseVars>>

----------------------------------------------------------------------------
(* ParseModelInfo: the model, version, label and method of a REST request *)

MaxParses == 2

HttpMethods == {"POST", "GET", "PUT", "OPTIONS"}

RequestPaths ==
    {"/v1/models/half_plus_two:predict",
     "/v1/models/half_plus_two/versions/123:classify",
     "/v1/models/my%20model/labels/stable:regress",
     "/v1/models/half_plus_two/versions/99999999999999999999:predict",
     "/v1/models/half_plus_two/versions/123/metadata",
     "/v1/models",
     "/v1/nothing"}

\* the result of RE2::FullMatch: whether the path matched and the four
\* captured groups, an unmatched group being the empty string
Match(name, version, label, last) ==
    [matched |-> TRUE, name |-> name, version |-> version, label |-> label,
     last |-> last]

NoMatch == [matched |-> FALSE, name |-> "", version |-> "", label |-> "", last |-> ""]

\* RE2::FullMatch(request_path, kPredictionApiGegex):
\* /v1/models/NAME[/versions/N | /labels/L]:(classify|regress|predict)
PredictionApiMatch(request_path) ==
    CASE request_path = "/v1/models/half_plus_two:predict" ->
            Match("half_plus_two", "", "", "predict")
      [] request_path = "/v1/models/half_plus_two/versions/123:classify" ->
            Match("half_plus_two", "123", "", "classify")
      [] request_path = "/v1/models/my%20model/labels/stable:regress" ->
            Match("my%20model", "", "stable", "regress")
      [] request_path = "/v1/models/half_plus_two/versions/99999999999999999999:predict" ->
            Match("half_plus_two", "99999999999999999999", "", "predict")
      [] OTHER -> NoMatch

\* RE2::FullMatch(request_path, kModelStatusApiRegex):
\* /v1/models[/NAME][/versions/N | /labels/L][/metadata]
ModelStatusApiMatch(request_path) ==
    CASE request_path = "/v1/models/half_plus_two/versions/123/metadata" ->
            Match("half_plus_two", "123", "", "metadata")
      [] request_path = "/v1/models" -> Match("", "", "", "")
      [] OTHER -> NoMatch

\* curl_easy_unescape: the percent escapes of the string decoded
Unescape(arg) ==
    CASE arg = "my%20model" -> "my model"
      [] arg = "my%2520model" -> "my%20model"
      [] OTHER -> arg

\* DecodeArg: the argument is decoded in place; curl_ok is whether curl gave
\* this call a handle and a decoded string
DecodeArg(arg, curl_ok) ==
    IF curl_ok THEN [ok |-> TRUE, arg |-> Unescape(arg)] ELSE [ok |-> FALSE, arg |-> arg]

\* absl::SimpleAtoi onto an int64: fails when the digits do not fit
SimpleAtoi(str) ==
    CASE str = "123" -> [ok |-> TRUE, value |-> 123]
      [] OTHER -> [ok |-> FALSE, value |-> 0]

\* the output parameters of ParseModelInfo
ParseOutputs(model_name, model_version, model_version_label, method, model_subresource, parse_successful) ==
    [model_name |-> model_name, model_version |-> model_version,
     model_version_label |-> model_version_label, method |-> method,
     model_subresource |-> model_subresource,
     parse_successful |-> parse_successful]

\* what a caller may pass in: fresh outputs, and outputs that already hold
\* values
FreshOutputs == ParseOutputs("", nullopt(0), nullopt(""), "", "", FALSE)

CallerOutputs ==
    {FreshOutputs,
     ParseOutputs("half_plus_two", optional(7), nullopt(""), "predict", "", TRUE),
     ParseOutputs("my%20model", nullopt(0), optional("canary"), "", "metadata", TRUE),
     ParseOutputs("my%2520model", nullopt(0), nullopt(""), "", "", FALSE)}

\* what curl does for the two DecodeArg calls of a ParseModelInfo call, each
\* of which asks for a handle of its own
CurlOutcomes == [name : BOOLEAN, label : BOOLEAN]

\* returns the status and the output parameters after the call; curl_ok.name
\* and curl_ok.label are the outcomes of the DecodeArg call for the model
\* name and for the version label
ParseModelInfo(http_method, request_path, outs, curl_ok) ==
    LET m == IF http_method = "POST" THEN PredictionApiMatch(request_path)
             ELSE IF http_method = "GET" THEN ModelStatusApiMatch(request_path)
             ELSE NoMatch
        model_version_str == m.version
        model_version_label_str == m.label
        matched ==
            IF http_method = "POST"
            THEN IF m.matched
                 THEN [outs EXCEPT !.parse_successful = TRUE, !.model_name = m.name,
                                   !.method = m.last]
                 ELSE [outs EXCEPT !.parse_successful = FALSE]
            ELSE IF http_method = "GET"
            THEN IF m.matched
                 THEN [outs EXCEPT !.parse_successful = TRUE, !.model_name = m.name,
                                   !.model_subresource = m.last]
                 ELSE [outs EXCEPT !.parse_successful = FALSE]
            ELSE outs
        name == DecodeArg(matched.model_name, curl_ok.name)
        named == [matched EXCEPT !.model_name = name.arg]
        version == SimpleAtoi(model_version_str)
        label == DecodeArg(model_version_label_str, curl_ok.label)
    IN  IF matched.model_name # "" /\ ~name.ok
        THEN [status |-> InvalidArgument("Failed to decode model name:"
                                            \o matched.model_name),
              outs |-> matched]
        ELSE LET decoded == IF matched.model_name # "" THEN named ELSE matched
                 withVersion == IF model_version_str # ""
                                THEN [decoded EXCEPT
                                        !.model_version = optional(version.value)]
                                ELSE decoded
                 withLabel == IF model_version_label_str # ""
                              THEN [withVersion EXCEPT
                                      !.model_version_label = optional(label.arg)]
                              ELSE withVersion
             IN  IF model_version_str # "" /\ ~version.ok
                 THEN [status |-> InvalidArgument("Failed to convert version: "
                                     \o model_version_str \o " to numeric."),
                       outs |-> decoded]
                 ELSE IF model_version_label_str # "" /\ ~label.ok
                 THEN [status |-> InvalidArgument("Failed to decode model version label:"
                                     \o model_version_label_str),
                       outs |-> withVersion]
                 ELSE [status |-> StatusOK, outs |-> withLabel]

NoParse == [http_method |-> "", request_path |-> "",
            curl_ok |-> [name |-> TRUE, label |-> TRUE],
            before |-> FreshOutputs, status |-> StatusOK, after |-> FreshOutputs]

\* one call of ParseModelInfo on the caller's output parameters
Parse(http_method, request_path, outs, curl_ok) ==
    LET r == ParseModelInfo(http_method, request_path, outs, curl_ok)
    IN  /\ parses < MaxParses
        /\ parses' = parses + 1
        /\ parse' = [http_method |-> http_method, request_path |-> request_path,
                     curl_ok |-> curl_ok, before |-> outs, status |-> r.status,
                     after |-> r.outs]
        /\ UNCHANGED <<dispatcherVars, fillVars, factoryVars, tfliteVars, batchVars>>

----------------------------------------------------------------------------
(* Specification of the dispatcher *)

InitDispatcher ==
    /\ enforce_session_run_timeout_ \in BOOLEAN
    /\ rpc = NoRpc
    /\ serviceCalls = [op \in Ops |-> 0]
    /\ requestCount = [k \in ModelNames \X StatusCodes |-> 0]
    /\ requestLatency = [k \in ModelNames \X Ops \X Entrypoints |-> 0]

InitDispatcherIdle ==
    /\ enforce_session_run_timeout_ = FALSE
    /\ rpc = NoRpc
    /\ serviceCalls = [op \in Ops |-> 0]
    /\ requestCount = [k \in ModelNames \X StatusCodes |-> 0]
    /\ requestLatency = [k \in ModelNames \X Ops \X Entrypoints |-> 0]

InitFill ==
    /\ fill = NoFill
    /\ fillCalls = 0

InitFactoryIdle ==
    /\ factory = NoFactory
    /\ schedulers = 0
    /\ load = NoLoad
    /\ loads = 0

InitTfLite ==
    /\ tflite = NoTfLite
    /\ tfliteCalls = 0

\* a batching scheduler right after its construction
InitBatch ==
    /\ tasks = <<>>
    /\ open = [sig \in SignatureKeys |-> EmptyGroup]
    /\ batches = <<>>
    /\ shutdown = FALSE

InitParse ==
    /\ parse = NoParse
    /\ parses = 0

Init == InitDispatcher /\ InitFill /\ InitFactoryIdle /\ InitTfLite /\ InitBatch /\ InitParse

Next ==
    \/ \E m \in ModelNames, t \in TimeCases, s \in ServiceStatuses :
          Predict(m, t[1], t[2], s)
    \/ \E m \in ModelNames, t \in TimeCases, s \in ServiceStatuses :
          GetModelMetadata(m, t[1], t[2], s)
    \/ \E m \in ModelNames, t \in TimeCases, s \in ServiceStatuses :
          Classify(m, t[1], t[2], s)
    \/ \E m \in ModelNames, t \in TimeCases, s \in ServiceStatuses :
          Regress(m, t[1], t[2], s)
    \/ \E m \in ModelNames, t \in TimeCases, s \in ServiceStatuses :
          MultiInference(m, t[1], t[2], s)

Spec == Init /\ [][Next]_vars

InitForFill ==
    InitDispatcherIdle /\ InitFill /\ InitFactoryIdle /\ InitTfLite /\ InitBatch /\ InitParse

NextFill ==
    \E m \in ModelNames, v \in FillVersions, l \in FillLabels, ms \in FillSpecs :
        Fill(m, v, l, ms)

SpecFill == InitForFill /\ [][NextFill]_vars

\* factories come from SavedModelBundleFactory::Create
InitForFactory ==
    InitDispatcherIdle /\ InitFill /\ InitFactoryIdle /\ InitTfLite /\ InitBatch /\ InitParse

NextFactory ==
    \/ \E c \in Configs, s \in UtilStatuses : Create(c, s)
    \/ \E m \in {md.value : md \in Metadatas}, p \in Paths, w \in UtilStatuses :
          CreateSavedModelBundleWithMetadata(m, p, w)
    \/ \E p \in Paths, w \in UtilStatuses : CreateSavedModelBundle(p, w)

SpecFactory == InitForFactory /\ [][NextFactory]_vars

\* factories come from the constructor, given any configuration and either a
\* scheduler or none
InitInjected ==
    /\ InitDispatcherIdle
    /\ InitFill
    /\ \E c \in Configs, b \in {nullptr, 1} :
          /\ factory = SavedModelBundleFactory(c, b)
          /\ schedulers = b
    /\ load = NoLoad
    /\ loads = 0
    /\ InitTfLite
    /\ InitBatch
    /\ InitParse

NextInjected ==
    \/ \E m \in {md.value : md \in Metadatas}, p \in Paths, w \in UtilStatuses :
          CreateSavedModelBundleWithMetadata(m, p, w)
    \/ \E p \in Paths, w \in UtilStatuses : CreateSavedModelBundle(p, w)

SpecInjected == InitInjected /\ [][NextInjected]_vars

\* the batching scheduler with its callers, its timer and its batch workers
NextBatch ==
    \/ \E sig \in SignatureKeys, x \in TaskInputs : Enqueue(sig, x)
    \/ Tick
    \/ \E sig \in SignatureKeys : CloseOnTimeout(sig)
    \/ \E b \in DOMAIN batches : StartBatch(b)
    \/ \E b \in DOMAIN batches, st \in RunStatuses : FinishBatch(b, st)
    \/ Shutdown

SpecBatch == InitForFactory /\ [][NextBatch]_vars

\* the timer and the batch workers keep running
FairBatch ==
    /\ WF_vars(Tick)
    /\ WF_vars(\E sig \in SignatureKeys : CloseOnTimeout(sig))
    /\ WF_vars(\E b \in DOMAIN batches : StartBatch(b))
    /\ WF_vars(\E b \in DOMAIN batches, st \in RunStatuses : FinishBatch(b, st))

\* the same scheduler with one input value: whether a task is ever completed
\* does not depend on what it carries
NextBatchOneInput ==
    \/ \E sig \in SignatureKeys : Enqueue(sig, 2)
    \/ Tick
    \/ \E sig \in SignatureKeys : CloseOnTimeout(sig)
    \/ \E b \in DOMAIN batches : StartBatch(b)
    \/ \E b \in DOMAIN batches, st \in RunStatuses : FinishBatch(b, st)
    \/ Shutdown

SpecBatchFair == InitForFactory /\ [][NextBatchOneInput]_vars /\ FairBatch

\* calls of ParseModelInfo
NextParse ==
    \E hm \in HttpMethods, rp \in RequestPaths, outs \in CallerOutputs, c \in CurlOutcomes :
        Parse(hm, rp, outs, c)

SpecParse == InitForFill /\ [][NextParse]_vars

\* loads through a factory and direct TfLiteSession::Create calls
NextTfLite ==
    \/ NextFactory
    \/ \E m \in TfLiteModels, sm \in SignatureMaps, n \in {1, 4} : TfLiteCreate(m, sm, n)

SpecTfLite == InitForFactory /\ [][NextTfLite]_vars

----------------------------------------------------------------------------
(* Properties of the dispatcher *)

TimeoutOps == {"Predict", "Classify", "Regress", "MultiInference"}

\* max(0, deadline - now) split in whole seconds and the remaining whole
\* milliseconds, with the deadline read on the monotonic clock
ClaimedTimeout(deadline, mono) ==
    LET dsec == IF deadline.clock_type = "REALTIME"
                THEN deadline.tv_sec - RealtimeOffsetSec ELSE deadline.tv_sec
        passed == \/ dsec < mono.tv_sec
                  \/ dsec = mono.tv_sec /\ deadline.tv_nsec <= mono.tv_nsec
        borrow == IF deadline.tv_nsec < mono.tv_nsec THEN 1 ELSE 0
        nsec == deadline.tv_nsec - mono.tv_nsec + borrow * GPR_NS_PER_SEC
    IN  IF passed THEN [sec |-> 0, ms |-> 0]
        ELSE [sec |-> dsec - mono.tv_sec - borrow, ms |-> nsec \div GPR_NS_PER_MS]

\* C1: every call of every dispatcher operation, whatever the outcome of the
\* delegated service call, records exactly one request-count sample, in the
\* cell of the request's model name and the outcome.
C1_OneCountSamplePerCall ==
    [][ /\ Total(requestCount') = Total(requestCount) + 1
        /\ requestCount'[<<rpc'.model_name, rpc'.tf_status.code>>] =
             requestCount[<<rpc'.model_name, rpc'.tf_status.code>>] + 1 ]_vars

\* C2: every call of every dispatcher operation whose delegated service call
\* succeeds records exactly one latency sample, in the cell of (model name,
\* operation kind, entry point).
C2_OneLatencySampleOnSuccess ==
    [][ ok(rpc'.tf_status) =>
          /\ Total(requestLatency') = Total(requestLatency) + 1
          /\ requestLatency'[<<rpc'.model_name, rpc'.op, "GRPC">>] =
               requestLatency[<<rpc'.model_name, rpc'.op, "GRPC">>] + 1 ]_vars

\* C3: with the session timeout enforced, the timeout handed to the backend is
\* max(0, deadline - now) in whole milliseconds, and so never negative.
C3_TimeoutIsClampedDifference ==
    (enforce_session_run_timeout_ /\ rpc.op \in TimeoutOps) =>
        LET claimed == ClaimedTimeout(rpc.deadline, rpc.now)
            timeout == rpc.run_options.timeout_in_ms
        IN  /\ timeout >= 0
            /\ timeout \div GPR_MS_PER_SEC = claimed.sec
            /\ timeout % GPR_MS_PER_SEC = claimed.ms

\* C4: with the session timeout not enforced, Predict, Classify, Regress and
\* MultiInference hand the backend run options without a timeout, whatever
\* the deadline of the call is.
C4_NoTimeoutWhenNotEnforced ==
    (~enforce_session_run_timeout_ /\ rpc.op \in TimeoutOps) =>
        /\ rpc.has_run_options
        /\ rpc.run_options = DefaultRunOptions
        /\ rpc.run_options.timeout_in_ms = 0

\* a Regress call without enforcement whose deadline had already passed
C4_Witness ==
    /\ ~enforce_session_run_timeout_
    /\ rpc.op = "Regress"
    /\ ClaimedTimeout(rpc.deadline, rpc.now) = [sec |-> 0, ms |-> 0]
    /\ rpc.deadline # rpc.now

\* C5: a dispatcher call invokes its own service operation exactly once and
\* no other, and the wire status it returns is that invocation's status: OK
\* exactly when the service status is OK, with the same code.
C5_OneInvocationStatusMapped ==
    [][ /\ serviceCalls' = [serviceCalls EXCEPT ![rpc'.op] = @ + 1]
        /\ ok(rpc'.status) <=> ok(rpc'.tf_status)
        /\ rpc'.status.code = rpc'.tf_status.code ]_vars

\* a Classify call whose service operation failed, invoked once
C5_Witness ==
    /\ rpc.op = "Classify"
    /\ rpc.tf_status.code = "NOT_FOUND"
    /\ rpc.status.code = "NOT_FOUND"
    /\ serviceCalls["Classify"] = 1

\* C6: a dispatcher call whose delegated service operation fails records no
\* latency sample and returns a status that is not OK.
C6_NoLatencyOnFailure ==
    [][ ~ok(rpc'.tf_status) =>
          /\ requestLatency' = requestLatency
          /\ ~ok(rpc'.status) ]_vars

\* a failed Regress call after which the latency cells are all empty
C6_Witness ==
    /\ rpc.op = "Regress"
    /\ ~ok(rpc.tf_status)
    /\ Total(requestLatency) = 0
    /\ Total(requestCount) = 1

----------------------------------------------------------------------------
(* Properties of FillModelSpecWithNameVersionAndLabel *)

BothSupplied == fill.model_version.has_value /\ fill.model_version_label.has_value

\* C7: the call returns InvalidArgument exactly when both a version and a
\* label are supplied, for every model name and every value of the two, and
\* then writes neither of them to the model spec; with at most one supplied
\* it returns OK and the model spec carries exactly the supplied selector: a
\* supplied version replaces whatever selector the spec carried, a supplied
\* label likewise, and with none supplied the spec keeps what it carried.
C7_BothSelectorsRejected ==
    fillCalls > 0 =>
        /\ fill.model_spec.name = fill.model_name
        /\ BothSupplied =>
              /\ fill.status.code = "INVALID_ARGUMENT"
              /\ fill.model_spec.has_version = fill.spec_before.has_version
              /\ fill.model_spec.version = fill.spec_before.version
              /\ fill.model_spec.version_label = fill.spec_before.version_label
        /\ ~BothSupplied =>
              /\ fill.status = StatusOK
              /\ IF fill.model_version.has_value
                 THEN /\ fill.model_spec.has_version
                      /\ fill.model_spec.version = fill.model_version.value
                      /\ fill.model_spec.version_label = ""
                 ELSE IF fill.model_version_label.has_value
                 THEN /\ fill.model_spec.version_label = fill.model_version_label.value
                      /\ ~fill.model_spec.has_version
                      /\ fill.model_spec.version = 0
                 ELSE /\ fill.model_spec.has_version = fill.spec_before.has_version
                      /\ fill.model_spec.version = fill.spec_before.version
                      /\ fill.model_spec.version_label = fill.spec_before.version_label

\* both a version and a label were supplied for a fresh model spec
C7_Witness ==
    /\ fillCalls > 0
    /\ fill.model_version = optional(42)
    /\ fill.model_version_label = optional("canary")
    /\ fill.spec_before = DefaultModelSpec
    /\ fill.status.code = "INVALID_ARGUMENT"
    /\ fill.model_spec = ModelSpec(fill.model_name, FALSE, 0, "")

----------------------------------------------------------------------------
(* Properties of SavedModelBundleFactory *)

Loaders(attempts) == [i \in DOMAIN attempts |-> attempts[i].loader]

SessionMetadataOf(metadata) ==
    optional([name |-> metadata.value.servable_id.name,
              version |-> metadata.value.servable_id.version])

\* C8: every Load attempts exactly one backend loader: the TF Lite loader
\* exactly when prefer_tflite_model is set and model.tflite exists under the
\* path, and otherwise the full-engine loader with the active tag set.
C8_ExactlyOneLoader ==
    loads > 0 =>
        /\ Len(load.attempts) = 1
        /\ load.attempts[1].loader = "LoadTfLiteModel" <=>
              (factory.config.prefer_tflite_model
                 /\ "model.tflite" \in Storage[load.path].files)
        /\ load.attempts[1].loader # "LoadTfLiteModel" =>
              /\ load.attempts[1].loader = "LoadSessionBundleOrSavedModelBundle"
              /\ load.attempts[1].tags =
                    (IF factory.config.saved_model_tags = {} THEN {"serve"}
                     ELSE factory.config.saved_model_tags)

\* prefer_tflite_model is set, model.tflite is absent, the full engine loaded
C8_Witness ==
    /\ loads > 0
    /\ factory.config.prefer_tflite_model
    /\ load.path = "/models/saved_model/123"
    /\ Loaders(load.attempts) = <<"LoadSessionBundleOrSavedModelBundle">>
    /\ load.bundle.session.kind = "direct"

BatchingWithoutScheduler ==
    /\ loads > 0
    /\ factory.config.has_batching_parameters
    /\ factory.batch_scheduler = nullptr

\* C9 as claimed: with batching configured and no scheduler constructed
\* beforehand, Load fails with Internal.
C9_InternalWithoutScheduler ==
    BatchingWithoutScheduler => load.status.code = "INTERNAL"

\* C9: with batching configured and no scheduler constructed beforehand, Load
\* fails: with Internal when the backend loaded, and with the error of the
\* backend load when it did not.
C9_FailsWithoutScheduler ==
    BatchingWithoutScheduler =>
        /\ ~ok(load.status)
        /\ load.bundle.session.kind # "none" =>
              /\ load.status = Error("INTERNAL", "batch_scheduler_ not set")
              /\ load.bundle.session.wrapper = "none"
        /\ load.bundle.session.kind = "none" =>
              load.status \in {Error("NOT_FOUND", "no saved model under " \o load.path),
                               Error("INVALID_ARGUMENT", "no meta graph matches the tags"),
                               Error("INVALID_ARGUMENT",
                                     "Cannot build FlatBufferModel from buffer.")}

\* the backend loaded and the missing scheduler failed the Load
C9_Witness ==
    /\ BatchingWithoutScheduler
    /\ load.bundle.session.kind = "direct"
    /\ load.status.code = "INTERNAL"

\* C10: version metadata supplied to Load is attached to the execution
\* configuration of the backend Load builds, whichever backend that is, and
\* the loader chosen and the steps taken are those of a Load without metadata.
C10_MetadataAttachedToBackend ==
    (loads > 0 /\ load.metadata.has_value) =>
        /\ \A i \in DOMAIN load.attempts :
              load.attempts[i].session_metadata = SessionMetadataOf(load.metadata)
        /\ ok(load.status) =>
              load.bundle.session.session_metadata = SessionMetadataOf(load.metadata)
        /\ LET plain == InternalCreateSavedModelBundle(factory, NoMetadata, load.path,
                                                       StatusOK)
           IN  /\ Loaders(plain.attempts) = Loaders(load.attempts)
               /\ plain.steps = load.steps
               /\ plain.bundle.session.kind # "none" => 
                     plain.bundle.session.kind = load.bundle.session.kind

WrapSteps == {"WrapSession", "WrapSessionForBatching"}

StepCount(steps, S) == Cardinality({i \in DOMAIN steps : steps[i] \in S})

\* the errors the steps of a Load return
LoadStepErrors ==
    {Error("NOT_FOUND", "no saved model under " \o load.path),
     Error("INVALID_ARGUMENT", "no meta graph matches the tags"),
     Error("INVALID_ARGUMENT", "Cannot build FlatBufferModel from buffer."),
     Error("INTERNAL", "batch_scheduler_ not set")} \cup (UtilStatuses \ {StatusOK})

\* C11: a Load that returns an error hands the caller no bundle, the output
\* does not hold a partially constructed bundle, and the error is the error
\* of the step that failed, unchanged.
C11_NoBundleOnError ==
    (loads > 0 /\ ~ok(load.status)) =>
        /\ ~load.has_bundle
        /\ load.status \in LoadStepErrors

\* C12: a successful Load wraps the loaded backend exactly once, in the
\* batching wrapper bound to the factory's scheduler exactly when batching
\* parameters are configured and in the pass-through wrapper otherwise, and
\* no wrapping takes place unless the backend loaded.
C12_WrappedOnceAfterLoad ==
    loads > 0 =>
        /\ ok(load.status) =>
              /\ load.bundle.session.kind \in {"direct", "tflite"}
              /\ StepCount(load.steps, WrapSteps) = 1
              /\ load.steps[Len(load.steps)] \in WrapSteps
              /\ IF factory.config.has_batching_parameters
                 THEN /\ load.bundle.session.wrapper = "BatchingSession"
                      /\ load.bundle.session.scheduler = factory.batch_scheduler
                      /\ factory.batch_scheduler # nullptr
                      /\ load.steps[Len(load.steps)] = "WrapSessionForBatching"
                 ELSE /\ load.bundle.session.wrapper = "SessionWrapper"
                      /\ load.steps[Len(load.steps)] = "WrapSession"
        /\ load.bundle.session.kind = "none" =>
              /\ StepCount(load.steps, WrapSteps) = 0
              /\ load.bundle.session.wrapper = "none"
        /\ load.bundle.session.wrapper # "none" => ok(load.status)

\* a batching Load that succeeded
C12_Witness ==
    /\ loads > 0
    /\ ok(load.status)
    /\ factory.config.has_batching_parameters
    /\ load.bundle.session.wrapper = "BatchingSession"
    /\ load.bundle.session.kind = "tflite"

\* the meta graph the backend load of load.path produces
LoadedMetaGraph ==
    IF load.bundle.session.kind = "tflite"
    THEN [DefaultMetaGraphDef EXCEPT
            !.signature_def = Storage[load.path].tflite_signatures]
    ELSE LET tags == IF factory.config.saved_model_tags = {} THEN {"serve"}
                     ELSE factory.config.saved_model_tags
         IN  (CHOOSE g \in Storage[load.path].meta_graphs : g.tags = tags).meta_graph_def

\* C19: with metadata trimming configured, after a successful Load the meta
\* graph of the bundle keeps exactly the signature definitions the backend
\* load produced and every other field is empty; without it the meta graph
\* is as loaded. The trimming is done once, after the backend load and
\* before the session is wrapped.
C19_TrimKeepsSignatures ==
    (loads > 0 /\ ok(load.status)) =>
        IF factory.config.remove_unused_fields_from_bundle_metagraph
        THEN /\ load.bundle.meta_graph_def.signature_def = LoadedMetaGraph.signature_def
             /\ load.bundle.meta_graph_def.graph_def = ""
             /\ load.bundle.meta_graph_def.meta_info_def = ""
             /\ StepCount(load.steps, {"Swap"}) = 1
             /\ load.steps[1] = "Swap"
        ELSE /\ load.bundle.meta_graph_def = LoadedMetaGraph
             /\ StepCount(load.steps, {"Swap"}) = 0

\* a trimmed full-engine bundle that kept its two signatures
C19_Witness ==
    /\ loads > 0
    /\ ok(load.status)
    /\ factory.config.remove_unused_fields_from_bundle_metagraph
    /\ load.bundle.session.kind = "direct"
    /\ DOMAIN load.bundle.meta_graph_def.signature_def =
          {"signature1", "signature2"}
    /\ load.bundle.meta_graph_def.graph_def = ""

\* C20: the scheduler of a factory is constructed at most once, by Create
\* and so before any Load, exactly when the configuration has batching
\* parameters; a Load neither creates, replaces nor clears it, and every
\* batching Load of the factory is bound to that one scheduler.
C20_OneSchedulerPerFactory ==
    [][ /\ schedulers' <= 1
        /\ schedulers' # schedulers => (loads = 0 /\ loads' = 0 /\ ~factory.created)
        /\ factory'.created =>
              /\ factory'.batch_scheduler # nullptr <=>
                    factory'.config.has_batching_parameters
              /\ factory'.batch_scheduler # nullptr =>
                    (schedulers' = 1 /\ factory'.batch_scheduler = schedulers')
        /\ loads' # loads =>
              /\ factory' = factory
              /\ schedulers' = schedulers
              /\ load'.bundle.session.wrapper = "BatchingSession" =>
                    load'.bundle.session.scheduler = factory.batch_scheduler
              /\ (load'.bundle.session.wrapper = "BatchingSession"
                    /\ load.bundle.session.wrapper = "BatchingSession") =>
                    load'.bundle.session.scheduler = load.bundle.session.scheduler ]_vars

\* a second Load of a batching factory, bound to the scheduler Create made
C20_Witness ==
    /\ loads = 2
    /\ schedulers = 1
    /\ factory.batch_scheduler = 1
    /\ load.bundle.session.wrapper = "BatchingSession"
    /\ load.bundle.session.scheduler = 1


\* C13: after a TFLite load succeeds, the signature map it was given holds
\* exactly the signatures embedded in the model file: whatever the map held
\* before is gone, for a direct TfLiteSession::Create call as for a load
\* through the factory.
C13_SignaturesAreTheEmbeddedOnes ==
    /\ (tfliteCalls > 0 /\ ok(tflite.status)) =>
          /\ tflite.signatures = tflite.model.tflite_signatures
          /\ \A k \in DOMAIN tflite.signatures_before :
                k \notin DOMAIN tflite.model.tflite_signatures =>
                    k \notin DOMAIN tflite.signatures
    /\ (loads > 0 /\ ok(load.status) /\ load.bundle.session.kind = "tflite") =>
          load.bundle.meta_graph_def.signature_def = Storage[load.path].tflite_signatures

\* a Create call on a map with a residual entry succeeded, after a factory
\* loaded a TFLite model
C13_Witness ==
    /\ tfliteCalls > 0
    /\ ok(tflite.status)
    /\ tflite.signatures_before = ResidualSignature
    /\ tflite.signatures = ServingDefault
    /\ loads > 0
    /\ ok(load.status)
    /\ load.bundle.session.kind = "tflite"
    /\ load.bundle.meta_graph_def.signature_def = ServingDefault

----------------------------------------------------------------------------
(* Properties of the batching scheduler *)

TaskIds == DOMAIN tasks

Done(i) == tasks[i].state \in {"Completed", "Failed", "Cancelled"}

\* the batches that hold task i
BatchesOf(i) == {b \in DOMAIN batches : i \in Range(batches[b].ids)}

Increasing(ids) == \A i, j \in DOMAIN ids : i < j => ids[i] < ids[j]

CompletedAtMostOnce ==
    \A i \in TaskIds :
        /\ tasks[i].completions <= 1
        /\ tasks[i].completions = 1 <=> Done(i)
        /\ tasks[i].state = "Completed" => (ok(tasks[i].error) /\ tasks[i].result >= 0)
        /\ tasks[i].state \in {"Failed", "Cancelled"} =>
              (~ok(tasks[i].error) /\ tasks[i].result = -1)

CompletedOnce(n) == IF n \in TaskIds THEN tasks[n].completions = 1 ELSE FALSE

Waiting(n) == IF n \in TaskIds THEN tasks[n].state = "Queued" ELSE FALSE

Executed(n) == IF n \in TaskIds THEN tasks[n].state \in {"Completed", "Failed"} ELSE FALSE

NoneLeftBehind ==
    /\ \A b \in DOMAIN batches :
          batches[b].state = "Done" =>
              \A i \in Range(batches[b].ids) : tasks[i].completions = 1
    /\ shutdown => \A i \in TaskIds : tasks[i].state # "Queued"

\* C14: the completion handle of every enqueued task is completed exactly
\* once, with a result or with an error: never twice, and every task is
\* completed in the end, those of an executed batch and those that waited
\* when the scheduler shut down included.
C14_CompletedExactlyOnce ==
    /\ [](CompletedAtMostOnce /\ NoneLeftBehind)
    /\ \A n \in 1..(MaxTasks + 1) : (n \in TaskIds) ~> CompletedOnce(n)

\* every task was completed once: by a successful batch, by a failed batch
\* and by the shutdown
C14_Witness ==
    /\ Len(tasks) = MaxTasks
    /\ shutdown
    /\ \A i \in TaskIds : tasks[i].completions = 1
    /\ \E i \in TaskIds : tasks[i].state = "Completed"
    /\ \E i \in TaskIds : tasks[i].state = "Cancelled"

\* C15: no task belongs to two batches or to a batch and an open group at
\* once, and no batch is closed or executed twice.
C15_OneBatchPerTask ==
    /\ \A i \in TaskIds :
          /\ Cardinality(BatchesOf(i)) <= 1
          /\ (i \in Range(open[tasks[i].sig].ids)) => BatchesOf(i) = {}
          /\ tasks[i].state = "Queued" <=> i \in Range(open[tasks[i].sig].ids)
          /\ tasks[i].state \in {"Batched", "Executing", "Completed", "Failed"} =>
                Cardinality(BatchesOf(i)) = 1
    /\ \A b \in DOMAIN batches :
          /\ Cardinality(Range(batches[b].ids)) = Len(batches[b].ids)
          /\ batches[b].runs <= 1
          /\ batches[b].runs = 1 <=> batches[b].state = "Done"

\* two batches were closed, one by the timer and one by an enqueue, and both
\* were executed
C15_Witness ==
    /\ Len(batches) >= 2
    /\ \E b \in DOMAIN batches : batches[b].reason = "timeout"
    /\ \E b \in DOMAIN batches : batches[b].reason = "size"
    /\ \A b \in DOMAIN batches : batches[b].runs = 1

GroupsWithinLimits ==
    /\ \A sig \in SignatureKeys :
          /\ Len(open[sig].ids) <= MaxBatchSize
          /\ open[sig].age <= MaxBatchLatency
    /\ \A b \in DOMAIN batches :
          /\ Len(batches[b].ids) \in 1..MaxBatchSize
          /\ \/ batches[b].reason = "size" /\ Len(batches[b].ids) = MaxBatchSize
             \/ batches[b].reason = "timeout" /\ batches[b].waited = MaxBatchLatency

\* C16: a group closes when it reaches the maximum batch size or when its
\* oldest task has waited the maximum batch latency, whichever comes first; no
\* group ever holds more than the maximum, and a task that waits in a group
\* of a running scheduler is eventually executed, whether or not the group
\* fills.
C16_ClosedBySizeOrLatency ==
    /\ []GroupsWithinLimits
    /\ \A n \in 1..(MaxTasks + 1) : Waiting(n) ~> (shutdown \/ Executed(n))

\* a group that never filled was closed by the timer and executed
C16_Witness ==
    /\ ~shutdown
    /\ \E b \in DOMAIN batches :
          /\ batches[b].reason = "timeout"
          /\ Len(batches[b].ids) < MaxBatchSize
          /\ batches[b].waited = MaxBatchLatency
          /\ batches[b].state = "Done"

\* C17: when the physical execution of a batch fails, every task of the batch
\* gets that same error, exactly once, none gets a result, and the batch is
\* not executed again.
C17_FailureFansOut ==
    \A b \in DOMAIN batches :
        (batches[b].runs > 0 /\ ~ok(batches[b].status)) =>
            /\ batches[b].runs = 1
            /\ batches[b].state = "Done"
            /\ \A i \in Range(batches[b].ids) :
                  /\ tasks[i].state = "Failed"
                  /\ tasks[i].error = batches[b].status
                  /\ tasks[i].result = -1
                  /\ tasks[i].completions = 1

\* a batch of two tasks failed
C17_Witness ==
    \E b \in DOMAIN batches :
        /\ Len(batches[b].ids) >= 2
        /\ batches[b].state = "Done"
        /\ ~ok(batches[b].status)
        /\ \A i \in Range(batches[b].ids) : tasks[i].state = "Failed"

\* C18: the tasks of a signature enter the batches in arrival order, and a
\* successful batch hands every task the slice at its own position: the
\* servable's output for that task's input.
C18_ArrivalOrderAndSlices ==
    /\ \A b \in DOMAIN batches : Increasing(batches[b].ids)
    /\ \A sig \in SignatureKeys : Increasing(open[sig].ids)
    /\ \A b, c \in DOMAIN batches :
          (b < c /\ batches[b].sig = batches[c].sig) =>
              \A i \in Range(batches[b].ids), j \in Range(batches[c].ids) : i < j
    /\ \A b \in DOMAIN batches :
          \A i \in Range(batches[b].ids) :
              /\ tasks[i].sig = batches[b].sig
              /\ \A j \in Range(open[batches[b].sig].ids) : i < j
    /\ \A i \in TaskIds :
          tasks[i].state = "Completed" => tasks[i].result = Servable(tasks[i].input)

\* a batch of two tasks with different inputs succeeded
C18_Witness ==
    \E b \in DOMAIN batches :
        /\ Len(batches[b].ids) >= 2
        /\ batches[b].state = "Done"
        /\ ok(batches[b].status)
        /\ tasks[batches[b].ids[1]].input # tasks[batches[b].ids[2]].input
        /\ \A i \in Range(batches[b].ids) : tasks[i].state = "Completed"


----------------------------------------------------------------------------
(* The signatures handed to the batching wrapper *)

\* the signatures defined in what the backend load of load.path produced
DefinedSignatures ==
    [v \in {LoadedMetaGraph.signature_def[k] : k \in DOMAIN LoadedMetaGraph.signature_def} |->
        Cardinality({k \in DOMAIN LoadedMetaGraph.signature_def :
                        LoadedMetaGraph.signature_def[k] = v})]

\* C21: when batching is configured, the signatures a successful Load hands
\* to the batching wrapper are exactly the signatures defined in the loaded
\* bundle, for the TFLite and for the full-engine backend, with and without
\* the trimming of the meta graph before the wrapping; they are also the
\* signatures the returned bundle still defines.
C21_AllSignaturesRegistered ==
    (loads > 0 /\ ok(load.status) /\ factory.config.has_batching_parameters) =>
        /\ load.bundle.session.wrapper = "BatchingSession"
        /\ load.bundle.session.signatures = DefinedSignatures
        /\ \A k \in DOMAIN load.bundle.meta_graph_def.signature_def :
              BagIn(load.bundle.meta_graph_def.signature_def[k],
                    load.bundle.session.signatures)
        /\ \A v \in BagToSet(load.bundle.session.signatures) :
              \E k \in DOMAIN load.bundle.meta_graph_def.signature_def :
                  load.bundle.meta_graph_def.signature_def[k] = v
        /\ BagCardinality(load.bundle.session.signatures) =
              Cardinality(DOMAIN LoadedMetaGraph.signature_def)

\* a full-engine bundle with two signatures was trimmed and then wrapped for
\* batching with both of them
C21_Witness ==
    /\ loads > 0
    /\ ok(load.status)
    /\ factory.config.has_batching_parameters
    /\ factory.config.remove_unused_fields_from_bundle_metagraph
    /\ load.bundle.session.kind = "direct"
    /\ load.steps = <<"Swap", "GetSignatureDefs", "WrapSessionForBatching">>
    /\ BagCardinality(load.bundle.session.signatures) = 2


----------------------------------------------------------------------------
(* Properties of ParseModelInfo *)

\* C22: for an http_method other than "POST" and "GET", ParseModelInfo
\* returns OK and leaves parse_successful and every other output parameter
\* (model name, version, label, method, subresource) as the caller passed
\* them in.
C22_OtherMethodsTouchNothing ==
    (parses > 0 /\ parse.http_method \notin {"POST", "GET"}) =>
        /\ ok(parse.status)
        /\ parse.after = parse.before

====
